---------------------------- MODULE Spec2Model ----------------------------
(***************************************************************************)
(* pushecr (src/main.go): one run of the command-line helper.              *)
(*                                                                         *)
(* main parses two flags, loads the YAML configuration through viper,      *)
(* selects one profile, validates it and then runs four external           *)
(* processes (ECR login, docker build, docker tag, docker push), leaving   *)
(* at the first failure.                                                   *)
(*                                                                         *)
(* Text that reaches a command line (region, account id, repository, image *)
(* tag, image name) is a sequence of one-character strings, so that        *)
(* fmt.Sprintf is concatenation and the regular expression is a test on    *)
(* the characters.  Fixed messages of the program are TLA+ strings.        *)
(***************************************************************************)
EXTENDS Integers, Sequences, FiniteSets, TLC

(***************************************************************************)
(* Bounds of the model.                                                    *)
(***************************************************************************)
\* account identifiers of every length 0..MaxIdLen are tried by SpecValidate
MaxIdLen == 13
\* a configuration file holds at most this many profiles
MaxProfiles == 1

(***************************************************************************)
(* Character-sequence literals.                                            *)
(***************************************************************************)
Empty == << >>
DefaultRegion == <<"u", "s", "-", "e", "a", "s", "t", "-", "1">>
DefaultImageTag == <<"l", "a", "t", "e", "s", "t">>
EuWest == <<"e", "u", "-", "w", "e", "s", "t", "-", "1">>
GoodId == <<"1", "2", "3", "4", "5", "6", "7", "8", "9", "0", "1", "2">>
ShortId == <<"1", "2", "3", "4", "5">>
AlphaId == <<"1", "2", "3", "4", "5", "6", "7", "8", "9", "0", "1", "a">>
MyRepo == <<"m", "y", "r", "e", "p", "o">>
TagV1 == <<"v", "1">>
MyApp == <<"m", "y", "a", "p", "p">>
MyAppV1 == <<"m", "y", "a", "p", "p", ":", "v", "1">>
DigitCycle == <<"1", "2", "3", "4", "5", "6", "7", "8", "9", "0">>
ExampleLocal == <<"m", "y", "a", "p", "p", ":", "l", "a", "t", "e", "s", "t">>
ExampleRemote ==
    <<"1", "2", "3", "4", "5", "6", "7", "8", "9", "0", "1", "2", ".", "d",
      "k", "r", ".", "e", "c", "r", ".", "u", "s", "-", "e", "a", "s", "t",
      "-", "1", ".", "a", "m", "a", "z", "o", "n", "a", "w", "s", ".", "c",
      "o", "m", "/", "m", "y", "r", "e", "p", "o", ":", "l", "a", "t", "e",
      "s", "t">>

\* the fixed pieces of the four command lines (main.go 139-141, 156, 168, 174, 191)
DkrEcr == <<".", "d", "k", "r", ".", "e", "c", "r", ".">>
AmazonAws == <<".", "a", "m", "a", "z", "o", "n", "a", "w", "s", ".", "c", "o", "m">>
AwsLoginPrefix ==
    <<"a", "w", "s", " ", "e", "c", "r", " ", "g", "e", "t", "-", "l", "o",
      "g", "i", "n", "-", "p", "a", "s", "s", "w", "o", "r", "d", " ", "-",
      "-", "r", "e", "g", "i", "o", "n", " ">>
DockerLoginInfix ==
    <<" ", "|", " ", "d", "o", "c", "k", "e", "r", " ", "l", "o", "g", "i",
      "n", " ", "-", "-", "u", "s", "e", "r", "n", "a", "m", "e", " ", "A",
      "W", "S", " ", "-", "-", "p", "a", "s", "s", "w", "o", "r", "d", "-",
      "s", "t", "d", "i", "n", " ">>
Sh == <<"s", "h">>
DashC == <<"-", "c">>
Docker == <<"d", "o", "c", "k", "e", "r">>
BuildWord == <<"b", "u", "i", "l", "d">>
DashT == <<"-", "t">>
Dot == <<".">>
TagWord == <<"t", "a", "g">>
PushWord == <<"p", "u", "s", "h">>
Colon == <<":">>
Slash == <<"/">>

(***************************************************************************)
(* Data model (main.go 21-43).                                             *)
(***************************************************************************)
\* a Go string field that the decoder never wrote holds the zero value ""
ZeroProfile ==
    [ECR |-> [Region |-> Empty, AccountID |-> Empty, Repository |-> Empty,
              ImageTag |-> Empty],
     Docker |-> [ImageName |-> Empty]]

\* ProfileConfig{ECR: ECRConfig{...}, Docker: DockerConfig{...}}
ProfileConfig(region, accountId, repository, imageTag, imageName) ==
    [ECR |-> [Region |-> region, AccountID |-> accountId,
              Repository |-> repository, ImageTag |-> imageTag],
     Docker |-> [ImageName |-> imageName]]

(***************************************************************************)
(* The configuration file.  A key of the YAML document is either absent    *)
(* (or null, which viper treats alike) or set to a string: << >> is        *)
(* absent, <<s>> is set to s.  Profile keys are lower case, as viper       *)
(* stores them.                                                            *)
(***************************************************************************)
Unset == << >>
Set(s) == <<s>>
IsSet(o) == Len(o) = 1
Value(o) == o[1]

FileKeys == {"dev", "prod"}

FileRegions == {Unset, Set(EuWest)}
FileAccountIds == {Unset, Set(GoodId), Set(ShortId), Set(AlphaId)}
FileRepositories == {Unset, Set(MyRepo)}
FileImageTags == {Unset, Set(DefaultImageTag), Set(TagV1)}
FileImageNames == {Unset, Set(MyApp), Set(MyAppV1)}

FileProfiles ==
    [region : FileRegions, account_id : FileAccountIds,
     repository : FileRepositories, image_tag : FileImageTags,
     image_name : FileImageNames]

\* "ok": readable YAML of the expected shape; "unreadable": missing file or
\* invalid YAML (ReadInConfig fails); "badshape": YAML that does not decode
\* into Config (Unmarshal fails)
Files ==
    { [kind |-> "unreadable", profiles |-> [n \in {} |-> Unset]],
      [kind |-> "badshape", profiles |-> [n \in {} |-> Unset]] }
    \cup
    UNION { { [kind |-> "ok", profiles |-> p] : p \in [keys -> FileProfiles] } :
            keys \in { k \in SUBSET FileKeys : Cardinality(k) <= MaxProfiles } }

(***************************************************************************)
(* loadConfig (main.go 98-115).                                            *)
(***************************************************************************)
ErrRead == "error leyendo el archivo de configuracion"
ErrParse == "error parseando la configuracion"
NoError == "nil"

\* (variant: the defaults registered for every profile)
HasDefault_AnyProfile(name, field) ==
    field \in {"region", "image_tag"}

\* viper.SetDefault (main.go 102-103): the two defaults, keyed by their path
HasDefault(name, field) ==
    name = "dev" /\ field \in {"region", "image_tag"}

DefaultValue(field) ==
    IF field = "region" THEN DefaultRegion ELSE DefaultImageTag

\* viper's lookup of one key: the file's value when set, else the default
\* registered for that path, else nothing (the struct field keeps "")
Lookup(f, name, field) ==
    IF name \in DOMAIN f.profiles /\ IsSet(f.profiles[name][field])
    THEN Value(f.profiles[name][field])
    ELSE IF HasDefault(name, field) THEN DefaultValue(field)
    ELSE Empty

\* viper.Unmarshal decodes AllSettings(), the merge of the file's keys and
\* the keys that have a default: a default's path is a key of that merge
\* whether or not the file mentions it
SettingsKeys(f) ==
    DOMAIN f.profiles
        \cup { n \in FileKeys : \E fld \in {"region", "image_tag"} : HasDefault(n, fld) }

loadConfig(f) ==
    IF f.kind = "unreadable"
    THEN [err |-> ErrRead, Profiles |-> [n \in {} |-> ZeroProfile]]
    ELSE IF f.kind = "badshape"
    THEN [err |-> ErrParse, Profiles |-> [n \in {} |-> ZeroProfile]]
    ELSE [err |-> NoError,
          Profiles |->
              [n \in SettingsKeys(f) |->
                  ProfileConfig(Lookup(f, n, "region"),
                                Lookup(f, n, "account_id"),
                                Lookup(f, n, "repository"),
                                Lookup(f, n, "image_tag"),
                                Lookup(f, n, "image_name"))]]

(***************************************************************************)
(* validateConfig (main.go 117-135).                                       *)
(***************************************************************************)
ErrRegionRequired == "ecr.region is required"
ErrAccountRequired == "ecr.account_id is required"
ErrAccountDigits == "ecr.account_id debe ser una cadena de 12 digitos"
ErrRepositoryRequired == "ecr.repository is required"
ErrImageNameRequired == "docker.image_name is required"

AccountIdDigits == 12

\* \d of Go's regexp: an ASCII decimal digit
IsDigit(c) == c \in {"0", "1", "2", "3", "4", "5", "6", "7", "8", "9"}

\* regexp.MatchString(`^\d{12}$`, s): without the m flag ^ and $ are the
\* two ends of the text, so the whole text is twelve digits
MatchAccountID(s) ==
    /\ Len(s) = AccountIdDigits
    /\ \A i \in 1..Len(s) : IsDigit(s[i])

\* (variant: the pattern check left out)
validateConfig_NoPattern(config) ==
    IF config.ECR.Region = Empty THEN ErrRegionRequired
    ELSE IF config.ECR.AccountID = Empty THEN ErrAccountRequired
    ELSE IF config.ECR.Repository = Empty THEN ErrRepositoryRequired
    ELSE IF config.Docker.ImageName = Empty THEN ErrImageNameRequired
    ELSE NoError

\* (variant: image_tag required as well)
validateConfig_TagRequired(config) ==
    IF config.ECR.Region = Empty THEN ErrRegionRequired
    ELSE IF config.ECR.AccountID = Empty THEN ErrAccountRequired
    ELSE IF ~MatchAccountID(config.ECR.AccountID) THEN ErrAccountDigits
    ELSE IF config.ECR.Repository = Empty THEN ErrRepositoryRequired
    ELSE IF config.ECR.ImageTag = Empty THEN ErrImageNameRequired
    ELSE IF config.Docker.ImageName = Empty THEN ErrImageNameRequired
    ELSE NoError

\* (variant: the pattern check moved in front of the emptiness check)
validateConfig_PatternFirst(config) ==
    IF config.ECR.Region = Empty THEN ErrRegionRequired
    ELSE IF ~MatchAccountID(config.ECR.AccountID) THEN ErrAccountDigits
    ELSE IF config.ECR.AccountID = Empty THEN ErrAccountRequired
    ELSE IF config.ECR.Repository = Empty THEN ErrRepositoryRequired
    ELSE IF config.Docker.ImageName = Empty THEN ErrImageNameRequired
    ELSE NoError

validateConfig(config) ==
    IF config.ECR.Region = Empty THEN ErrRegionRequired
    ELSE IF config.ECR.AccountID = Empty THEN ErrAccountRequired
    ELSE IF ~MatchAccountID(config.ECR.AccountID) THEN ErrAccountDigits
    ELSE IF config.ECR.Repository = Empty THEN ErrRepositoryRequired
    ELSE IF config.Docker.ImageName = Empty THEN ErrImageNameRequired
    ELSE NoError

(***************************************************************************)
(* The four command lines (main.go 137-198): the argv handed to            *)
(* exec.Command.                                                           *)
(***************************************************************************)
\* ecrRepo of authenticate (main.go 139)
ecrRepo(config) ==
    config.ECR.AccountID \o DkrEcr \o config.ECR.Region \o AmazonAws

authenticate(config) ==
    <<Sh, DashC,
      AwsLoginPrefix \o config.ECR.Region \o DockerLoginInfix \o ecrRepo(config)>>

\* (variant: the image built under <image_name>:<image_tag>)
build_WithTag(config) ==
    <<Docker, BuildWord, DashT,
      config.Docker.ImageName \o Colon \o config.ECR.ImageTag, Dot>>

build(config) ==
    <<Docker, BuildWord, DashT, config.Docker.ImageName, Dot>>

\* what `docker build -t <name>` leaves in the local image cache: a name
\* that carries a tag (a colon after its last slash) is kept as it is, a
\* bare name gets the tag "latest"
HasTag(ref) ==
    \E i \in 1..Len(ref) :
        /\ ref[i] = ":"
        /\ \A j \in (i + 1)..Len(ref) : ref[j] # "/"

builtImage(config) ==
    LET name == build(config)[4]
    IN  IF HasTag(name) THEN name ELSE name \o Colon \o DefaultImageTag

\* localImage of tag (main.go 167)
localImage(config) ==
    config.Docker.ImageName \o Colon \o config.ECR.ImageTag

\* ecrImage of tag (main.go 168-173)
tagEcrImage(config) ==
    config.ECR.AccountID \o DkrEcr \o config.ECR.Region \o AmazonAws
        \o Slash \o config.ECR.Repository \o Colon \o config.ECR.ImageTag

tag(config) ==
    <<Docker, TagWord, localImage(config), tagEcrImage(config)>>

\* (variant: the pushed reference always tagged "latest")
pushEcrImage_Latest(config) ==
    config.ECR.AccountID \o DkrEcr \o config.ECR.Region \o AmazonAws
        \o Slash \o config.ECR.Repository \o Colon \o DefaultImageTag

\* ecrImage of push (main.go 185-190)
pushEcrImage(config) ==
    config.ECR.AccountID \o DkrEcr \o config.ECR.Region \o AmazonAws
        \o Slash \o config.ECR.Repository \o Colon \o config.ECR.ImageTag

push(config) ==
    <<Docker, PushWord, pushEcrImage(config)>>

(***************************************************************************)
(* State of one run.                                                       *)
(***************************************************************************)
VARIABLES
    args,           \* the command line: how flag.Parse ends and -profile
    file,           \* the file at the -config path
    pc,             \* where main is
    profile,        \* *profile
    config,         \* what loadConfig returned
    profileConfig,  \* the selected profile
    validation,     \* what validateConfig returned, "notrun" before the call
    invoked,        \* the external processes run so far, with their outcome
    output,         \* the lines printed so far
    exitCode,       \* the exit status, Running while main runs
    vInput,         \* SpecValidate: the profile handed to validateConfig
    vResult         \* SpecValidate: its result

mainVars ==
    <<args, file, pc, profile, config, profileConfig, validation, invoked,
      output, exitCode>>
vars == <<mainVars, vInput, vResult>>

Running == -1

ProfileFlags == {"dev", "prod", "staging"}

\* flag.Parse (main.go 46-52): "ok" with -profile given or left at its
\* default, "help" for -h/-help, "bad" for a command line it rejects
Args ==
    { [parse |-> "ok", profile |-> p] : p \in {Unset} \cup { Set(n) : n \in ProfileFlags } }
    \cup { [parse |-> "help", profile |-> Unset], [parse |-> "bad", profile |-> Unset] }

NoConfig == [err |-> "notloaded", Profiles |-> [n \in {} |-> ZeroProfile]]

Info(text) == [kind |-> "info", prefix |-> text, detail |-> ""]
Error(prefix, detail) == [kind |-> "error", prefix |-> prefix, detail |-> detail]
Success == [kind |-> "success", prefix |-> "Container built and pushed to ECR", detail |-> ""]

Init ==
    /\ args \in Args
    /\ file \in Files
    /\ pc = "parse"
    /\ profile = "dev"
    /\ config = NoConfig
    /\ profileConfig = ZeroProfile
    /\ validation = "notrun"
    /\ invoked = << >>
    /\ output = << >>
    /\ exitCode = Running
    /\ vInput = ZeroProfile
    /\ vResult = "notrun"

\* fmt.Println(ColorRed + prefix + err); os.Exit(1)
Fail(prefix, detail) ==
    /\ output' = Append(output, Error(prefix, detail))
    /\ exitCode' = 1
    /\ pc' = "exited"

\* main.go 46-52.  flag.CommandLine is ExitOnError: -h prints the usage and
\* exits 0, a rejected command line prints the usage and exits 2
ParseFlags ==
    /\ pc = "parse"
    /\ IF args.parse = "ok"
       THEN /\ profile' = (IF IsSet(args.profile) THEN Value(args.profile) ELSE "dev")
            /\ pc' = "load"
            /\ UNCHANGED <<output, exitCode>>
       ELSE /\ output' = Append(output, Info("usage"))
            /\ exitCode' = (IF args.parse = "help" THEN 0 ELSE 2)
            /\ pc' = "exited"
            /\ UNCHANGED profile
    /\ UNCHANGED <<args, file, config, profileConfig, validation, invoked, vInput, vResult>>

\* main.go 54-58
LoadConfig ==
    /\ pc = "load"
    /\ config' = loadConfig(file)
    /\ IF config'.err # NoError
       THEN Fail("Error loading configuration: ", config'.err)
       ELSE /\ pc' = "select"
            /\ UNCHANGED <<output, exitCode>>
    /\ UNCHANGED <<args, file, profile, profileConfig, validation, invoked, vInput, vResult>>

\* (variant: the map lookup without its exists test)
SelectProfile_NoExistsTest ==
    /\ pc = "select"
    /\ profileConfig' = (IF profile \in DOMAIN config.Profiles
                         THEN config.Profiles[profile] ELSE ZeroProfile)
    /\ output' = Append(output, Info("Loaded Configuration for profile"))
    /\ pc' = "validate"
    /\ UNCHANGED <<args, file, profile, config, validation, invoked, exitCode, vInput, vResult>>

\* main.go 60-66
SelectProfile ==
    /\ pc = "select"
    /\ IF profile \notin DOMAIN config.Profiles
       THEN /\ Fail("Profile not found in configuration", profile)
            /\ UNCHANGED profileConfig
       ELSE /\ profileConfig' = config.Profiles[profile]
            /\ output' = Append(output, Info("Loaded Configuration for profile"))
            /\ pc' = "validate"
            /\ UNCHANGED exitCode
    /\ UNCHANGED <<args, file, profile, config, validation, invoked, vInput, vResult>>

\* main.go 68-73
Validate ==
    /\ pc = "validate"
    /\ validation' = validateConfig(profileConfig)
    /\ IF validation' # NoError
       THEN Fail("Invalid configuration: ", validation')
       ELSE /\ pc' = "authenticate"
            /\ UNCHANGED <<output, exitCode>>
    /\ UNCHANGED <<args, file, profile, config, profileConfig, invoked, vInput, vResult>>

\* one method of ECR as main calls it: the banner is printed, the process
\* runs to its end (cmd.Run), and a failure is printed and ends the run
RunStep(step, banner, argv, errPrefix, errText, next) ==
    \E ok \in BOOLEAN :
        /\ invoked' = Append(invoked, [step |-> step, argv |-> argv, ok |-> ok])
        /\ IF ok
           THEN /\ output' = Append(output, Info(banner))
                /\ pc' = next
                /\ UNCHANGED exitCode
           ELSE /\ output' = output \o <<Info(banner), Error(errPrefix, errText)>>
                /\ exitCode' = 1
                /\ pc' = "exited"

\* main.go 75-78 with ECR.authenticate (137-152)
Authenticate ==
    /\ pc = "authenticate"
    /\ RunStep("authenticate", "Authenticating Docker with ECR",
               authenticate(profileConfig), "Authentication failed: ",
               "error durante la autenticacion con ECR", "build")
    /\ UNCHANGED <<args, file, profile, config, profileConfig, validation, vInput, vResult>>

\* main.go 80-83 with ECR.build (154-163)
Build ==
    /\ pc = "build"
    /\ RunStep("build", "Building container", build(profileConfig),
               "Build failed: ", "error al construir la imagen Docker", "tag")
    /\ UNCHANGED <<args, file, profile, config, profileConfig, validation, vInput, vResult>>

\* (variant: a failed tag is reported and the run goes on to push)
Tag_GoesOn ==
    /\ pc = "tag"
    /\ \E ok \in BOOLEAN :
        /\ invoked' = Append(invoked, [step |-> "tag", argv |-> tag(profileConfig), ok |-> ok])
        /\ output' = (IF ok THEN Append(output, Info("Tagging container"))
                      ELSE output \o <<Info("Tagging container"),
                                       Error("Tag failed: ", "error al etiquetar la imagen Docker")>>)
        /\ pc' = "push"
    /\ UNCHANGED <<args, file, profile, config, profileConfig, validation, exitCode, vInput, vResult>>

\* main.go 85-88 with ECR.tag (165-181)
Tag ==
    /\ pc = "tag"
    /\ RunStep("tag", "Tagging container", tag(profileConfig),
               "Tag failed: ", "error al etiquetar la imagen Docker", "push")
    /\ UNCHANGED <<args, file, profile, config, profileConfig, validation, vInput, vResult>>

\* (variant: a failed push is reported and main still ends normally)
Push_NoExit ==
    /\ pc = "push"
    /\ \E ok \in BOOLEAN :
        /\ invoked' = Append(invoked, [step |-> "push", argv |-> push(profileConfig), ok |-> ok])
        /\ output' = (IF ok THEN output \o <<Info("Pushing container"), Success>>
                      ELSE output \o <<Info("Pushing container"),
                                       Error("Push failed: ", "error al empujar la imagen Docker"),
                                       Success>>)
        /\ exitCode' = 0
        /\ pc' = "exited"
    /\ UNCHANGED <<args, file, profile, config, profileConfig, validation, vInput, vResult>>

\* main.go 90-96 with ECR.push (183-198): after a successful push main
\* prints the confirmation and returns
Push ==
    /\ pc = "push"
    /\ \E ok \in BOOLEAN :
        /\ invoked' = Append(invoked, [step |-> "push", argv |-> push(profileConfig), ok |-> ok])
        /\ IF ok
           THEN /\ output' = output \o <<Info("Pushing container"), Success>>
                /\ exitCode' = 0
           ELSE /\ output' = output \o <<Info("Pushing container"),
                                         Error("Push failed: ", "error al empujar la imagen Docker")>>
                /\ exitCode' = 1
        /\ pc' = "exited"
    /\ UNCHANGED <<args, file, profile, config, profileConfig, validation, vInput, vResult>>

Next ==
    \/ ParseFlags
    \/ LoadConfig
    \/ SelectProfile
    \/ Validate
    \/ Authenticate
    \/ Build
    \/ Tag
    \/ Push

Spec == Init /\ [][Next]_vars

(***************************************************************************)
(* validateConfig on its own: every profile of a bounded set is handed to  *)
(* it once.                                                                *)
(***************************************************************************)
NonDigits == {"a", "-"}

\* the n-digit text 1234567890123...
Digits(n) == [i \in 1..n |-> DigitCycle[((i - 1) % 10) + 1]]

\* every all-digit text of length 0..MaxIdLen, and each of them with one
\* character replaced by a non-digit
AccountIds ==
    { Digits(n) : n \in 0..MaxIdLen }
    \cup UNION { { [Digits(n) EXCEPT ![i] = c] : i \in 1..n, c \in NonDigits } :
                   n \in 1..MaxIdLen }

ValidateInputs ==
    { ProfileConfig(r, a, p, t, n) :
        r \in {Empty, DefaultRegion}, a \in AccountIds, p \in {Empty, MyRepo},
        t \in {Empty, DefaultImageTag, TagV1}, n \in {Empty, MyApp, MyAppV1} }

InitValidate ==
    /\ args = [parse |-> "ok", profile |-> Unset]
    /\ file = [kind |-> "unreadable", profiles |-> [n \in {} |-> Unset]]
    /\ pc = "parse"
    /\ profile = "dev"
    /\ config = NoConfig
    /\ profileConfig = ZeroProfile
    /\ validation = "notrun"
    /\ invoked = << >>
    /\ output = << >>
    /\ exitCode = Running
    /\ vInput \in ValidateInputs
    /\ vResult = "notrun"

ApplyValidate ==
    /\ vResult = "notrun"
    /\ vResult' = validateConfig(vInput)
    /\ UNCHANGED <<mainVars, vInput>>

NextValidate == ApplyValidate

SpecValidate == InitValidate /\ [][NextValidate]_vars

(***************************************************************************)
(* Properties.                                                             *)
(***************************************************************************)
StepOrder == <<"authenticate", "build", "tag", "push">>

\* twelve decimal digits, written out independently of MatchAccountID
TwelveDigits(s) ==
    /\ Len(s) = 12
    /\ \A i \in DOMAIN s : s[i] \in {"0", "1", "2", "3", "4", "5", "6", "7", "8", "9"}

\* C1: the steps run in the order authenticate, build, tag, push, each at
\* most once, and a step runs only if every step before it succeeded; once
\* a step has failed no later step runs.
C1_OrderedFailFast ==
    /\ Len(invoked) <= Len(StepOrder)
    /\ \A i \in 1..Len(invoked) :
        /\ invoked[i].step = StepOrder[i]
        /\ i < Len(invoked) => invoked[i].ok

\* only tag failed: authenticate and build ran, push did not
C1_Witness ==
    /\ pc = "exited"
    /\ Len(invoked) = 3
    /\ invoked[1].ok /\ invoked[2].ok /\ ~invoked[3].ok

\* C2: no step runs unless validateConfig ran before it in this run and
\* returned nil; when the selected profile's account id is not twelve
\* digits, validation fails and no step runs.
C2_ValidatedBeforeSteps ==
    /\ Len(invoked) > 0 => validation = NoError
    /\ pc \in {"authenticate", "build", "tag", "push"} => validation = NoError
    /\ (validation # "notrun" /\ ~TwelveDigits(profileConfig.ECR.AccountID)) =>
           /\ validation \notin {NoError, "notrun"}
           /\ invoked = << >>
           /\ exitCode = 1

\* the five-digit account id: validation failed, nothing was run
C2_Witness ==
    /\ pc = "exited"
    /\ profileConfig.ECR.AccountID = ShortId
    /\ profileConfig.ECR.Region # Empty
    /\ validation = ErrAccountDigits
    /\ invoked = << >>

\* C3: validateConfig returns nil exactly when region, account id,
\* repository and image name are non-empty and the account id is twelve
\* decimal digits; image_tag has no part in it.
C3_ValidIff ==
    vResult # "notrun" =>
        ( vResult = NoError <=>
            /\ vInput.ECR.Region # Empty
            /\ vInput.ECR.AccountID # Empty
            /\ vInput.ECR.Repository # Empty
            /\ vInput.Docker.ImageName # Empty
            /\ TwelveDigits(vInput.ECR.AccountID) )

\* a profile with an empty image_tag is accepted
C3_Witness ==
    /\ vResult = NoError
    /\ vInput.ECR.ImageTag = Empty

\* C7: validateConfig returns the error of the first failing check in the
\* order region, account id empty, account id pattern, repository, image
\* name.
C7_FirstFailingCheck ==
    vResult # "notrun" =>
        vResult =
            ( IF vInput.ECR.Region = Empty THEN "ecr.region is required"
              ELSE IF vInput.ECR.AccountID = Empty THEN "ecr.account_id is required"
              ELSE IF ~TwelveDigits(vInput.ECR.AccountID)
                   THEN "ecr.account_id debe ser una cadena de 12 digitos"
              ELSE IF vInput.ECR.Repository = Empty THEN "ecr.repository is required"
              ELSE IF vInput.Docker.ImageName = Empty THEN "docker.image_name is required"
              ELSE NoError )

\* region set, account id empty, repository empty: the account_id-required
\* error is the one returned
C7_Witness ==
    /\ vInput.ECR.Region # Empty
    /\ vInput.ECR.AccountID = Empty
    /\ vInput.ECR.Repository = Empty
    /\ vResult = ErrAccountRequired

\* the profile name the command line asks for
RequestedProfile ==
    IF IsSet(args.profile) THEN Value(args.profile) ELSE "dev"

\* C4: when the requested profile name is not in the loaded Configuration
\* the run ends with the profile-not-found error, validateConfig was never
\* called and no step was run.
C4_AbsentProfile ==
    /\ pc # "parse" => profile = RequestedProfile
    /\ (pc \notin {"parse", "load", "select"}
            /\ config.err = NoError
            /\ profile \notin DOMAIN config.Profiles) =>
           /\ pc = "exited"
           /\ exitCode = 1
           /\ output = <<Error("Profile not found in configuration", RequestedProfile)>>
           /\ validation = "notrun"
           /\ invoked = << >>

\* -profile prod against a file without prod
C4_Witness ==
    /\ pc = "exited"
    /\ config.err = NoError
    /\ profile = "prod"
    /\ "prod" \notin DOMAIN config.Profiles
    /\ exitCode = 1

\* the file leaves this key of this profile out
FileOmits(name, field) ==
    \/ name \notin DOMAIN file.profiles
    \/ ~IsSet(file.profiles[name][field])

\* C5: after loadConfig, dev has region us-east-1 and image tag latest
\* where the file omits them, a value of the file wins over the default,
\* and a profile other than dev keeps an omitted region or image tag empty.
C5_Defaults ==
    config.err = NoError =>
        /\ "dev" \in DOMAIN config.Profiles
        /\ FileOmits("dev", "region") =>
               config.Profiles["dev"].ECR.Region = DefaultRegion
        /\ FileOmits("dev", "image_tag") =>
               config.Profiles["dev"].ECR.ImageTag = DefaultImageTag
        /\ \A n \in DOMAIN file.profiles :
               /\ n \in DOMAIN config.Profiles
               /\ IsSet(file.profiles[n].region) =>
                      config.Profiles[n].ECR.Region = Value(file.profiles[n].region)
               /\ IsSet(file.profiles[n].image_tag) =>
                      config.Profiles[n].ECR.ImageTag = Value(file.profiles[n].image_tag)
        /\ \A n \in DOMAIN config.Profiles \ {"dev"} :
               /\ FileOmits(n, "region") => config.Profiles[n].ECR.Region = Empty
               /\ FileOmits(n, "image_tag") => config.Profiles[n].ECR.ImageTag = Empty

\* a prod profile without region and image tag was loaded and selected:
\* both are empty
C5_Witness ==
    /\ config.err = NoError
    /\ "prod" \in DOMAIN file.profiles
    /\ FileOmits("prod", "region") /\ FileOmits("prod", "image_tag")
    /\ pc = "exited"
    /\ profile = "prod"
    /\ profileConfig.ECR.Region = Empty
    /\ profileConfig.ECR.ImageTag = Empty

\* configuration loading, profile selection, validation and the four
\* steps all succeeded
AllSucceeded ==
    /\ config.err = NoError
    /\ profile \in DOMAIN config.Profiles
    /\ validation = NoError
    /\ Len(invoked) = 4
    /\ \A i \in 1..4 : invoked[i].ok

ErrorLines == { i \in 1..Len(output) : output[i].kind = "error" }
SuccessLines == { i \in 1..Len(output) : output[i].kind = "success" }

\* the error line of the first stage that failed
FirstFailure ==
    IF config.err # NoError THEN Error("Error loading configuration: ", config.err)
    ELSE IF profile \notin DOMAIN config.Profiles
         THEN Error("Profile not found in configuration", profile)
    ELSE IF validation # NoError THEN Error("Invalid configuration: ", validation)
    ELSE LET last == invoked[Len(invoked)].step
         IN  IF last = "authenticate"
             THEN Error("Authentication failed: ", "error durante la autenticacion con ECR")
             ELSE IF last = "build"
             THEN Error("Build failed: ", "error al construir la imagen Docker")
             ELSE IF last = "tag"
             THEN Error("Tag failed: ", "error al etiquetar la imagen Docker")
             ELSE Error("Push failed: ", "error al empujar la imagen Docker")

\* how a run that has ended must have ended
ExitContract ==
    /\ exitCode \in {0, 1}
    /\ exitCode = 0 <=> AllSucceeded
    /\ exitCode = 0 => (ErrorLines = {} /\ SuccessLines = {Len(output)})
    /\ exitCode = 1 =>
           /\ SuccessLines = {}
           /\ ErrorLines = {Len(output)}
           /\ output[Len(output)] = FirstFailure

\* C6 as stated: every run ends with exit code 0 exactly when every stage
\* succeeded and with 1 otherwise, the confirmation printed only with 0 and
\* exactly one error, that of the first failing stage, printed with 1.
C6_EveryRun ==
    /\ exitCode = Running <=> pc # "exited"
    /\ pc = "exited" => ExitContract

\* C6 amended: the same for every run whose command line flag.Parse
\* accepts; -h ends with 0 and a rejected command line with 2, both before
\* the configuration is loaded.
C6_ParsedRuns ==
    /\ exitCode = Running <=> pc # "exited"
    /\ (pc = "exited" /\ args.parse = "ok") => ExitContract
    /\ (pc = "exited" /\ args.parse # "ok") =>
           /\ exitCode = (IF args.parse = "help" THEN 0 ELSE 2)
           /\ config = NoConfig
           /\ invoked = << >>
           /\ ErrorLines = {} /\ SuccessLines = {}

\* the push failed after three good steps: exit 1 with the push error
C6_Witness ==
    /\ pc = "exited"
    /\ Len(invoked) = 4
    /\ ~invoked[4].ok
    /\ exitCode = 1

\* <account_id>.dkr.ecr.<region>.amazonaws.com
RegistryHost(c) ==
    c.ECR.AccountID \o <<".", "d", "k", "r", ".", "e", "c", "r", ".">> \o c.ECR.Region
        \o <<".", "a", "m", "a", "z", "o", "n", "a", "w", "s", ".", "c", "o", "m">>

\* <account_id>.dkr.ecr.<region>.amazonaws.com/<repository>:<image_tag>
RemoteReference(c) ==
    RegistryHost(c) \o <<"/">> \o c.ECR.Repository \o <<":">> \o c.ECR.ImageTag

\* the host at the end of the login pipeline that authenticate ran
LoginHost(cmdline, c) ==
    SubSeq(cmdline,
           Len(AwsLoginPrefix) + Len(c.ECR.Region) + Len(DockerLoginInfix) + 1,
           Len(cmdline))

ExampleProfile ==
    ProfileConfig(DefaultRegion, GoodId, MyRepo, DefaultImageTag, MyApp)

\* C8: when push runs, its reference is the target that tag used, both are
\* <account_id>.dkr.ecr.<region>.amazonaws.com/<repository>:<image_tag> of
\* the validated profile, and the reference starts with the host that
\* authenticate logged in to, followed by "/".
C8_SameRemoteReference ==
    (Len(invoked) = 4 /\ invoked[4].step = "push") =>
        LET pushed == invoked[4].argv[3]
            target == invoked[3].argv[4]
            host   == LoginHost(invoked[1].argv[3], profileConfig)
        IN  /\ validation = NoError
            /\ pushed = target
            /\ pushed = RemoteReference(profileConfig)
            /\ host = RegistryHost(profileConfig)
            /\ SubSeq(pushed, 1, Len(host) + 1) = host \o <<"/">>
            /\ profileConfig = ExampleProfile =>
                   /\ invoked[3].argv[3] = ExampleLocal
                   /\ pushed = ExampleRemote

\* push ran for a profile tagged v1
C8_Witness ==
    /\ Len(invoked) = 4
    /\ invoked[4].step = "push"
    /\ profileConfig.ECR.ImageTag = TagV1
    /\ profileConfig.ECR.Region = EuWest

\* the local reference that tag read in this run is the image that build
\* produced
LocalIsBuilt ==
    invoked[3].argv[3] = builtImage(profileConfig)

HasColon(s) == \E i \in 1..Len(s) : s[i] = ":"

\* C9 as stated: for every validated profile whose run reached tag, the
\* local reference of tag names the image that build produced exactly when
\* image_tag is "latest".
C9_LatestOnly ==
    (Len(invoked) >= 3 /\ invoked[3].step = "tag") =>
        ( LocalIsBuilt <=> profileConfig.ECR.ImageTag = DefaultImageTag )

\* C9 amended: the same, for every validated profile whose image_name
\* holds no ":" (an image_name that carries its own tag is built under
\* that tag).
C9_LatestOnlyBareName ==
    (Len(invoked) >= 3 /\ invoked[3].step = "tag") =>
        /\ validation = NoError
        /\ ~HasColon(profileConfig.Docker.ImageName) =>
               ( LocalIsBuilt <=> profileConfig.ECR.ImageTag = DefaultImageTag )

\* tag ran for myapp with image_tag v1: it read myapp:v1, build made
\* myapp:latest
C9_Witness ==
    /\ Len(invoked) >= 3
    /\ invoked[3].step = "tag"
    /\ profileConfig.Docker.ImageName = MyApp
    /\ profileConfig.ECR.ImageTag = TagV1
    /\ ~LocalIsBuilt

\* C10: the profile names of the loaded Configuration are the profile keys
\* of the file, and -profile dev against a file without dev ends in
\* profile-not-found.
C10_ProfilesAreFileKeys ==
    /\ config.err = NoError => DOMAIN config.Profiles = DOMAIN file.profiles
    /\ (pc = "exited" /\ config.err = NoError /\ profile = "dev"
            /\ "dev" \notin DOMAIN file.profiles) =>
           output = <<Error("Profile not found in configuration", "dev")>>

=============================================================================
